---- MODULE Spec2Model ----
(***************************************************************************)
(* Model of codemcp/rules.py: the rule loader, the glob matcher, the       *)
(* upward directory walk of find_applicable_rules and the renderer         *)
(* get_applicable_rules_content.                                           *)
(*                                                                         *)
(* Python strings are TLA+ strings; Len, \o and SubSeq act on them         *)
(* character by character, so str.startswith, str.endswith, `in`,          *)
(* str.split, os.path.dirname and os.path.normpath are computed on the     *)
(* characters exactly as Python computes them.                             *)
(***************************************************************************)
EXTENDS Integers, Sequences, FiniteSets, TLC

VARIABLES
    fs,                   \* the file system: sequence of [path, doc], in scandir order
    repo_root,            \* argument repo_root, after os.path.abspath (line 148)
    file_path,            \* argument file_path as given; "" stands for None (both falsy)
    current_dir,          \* local current_dir of the walk
    applicable_rules,     \* local applicable_rules: sequence of Rule
    suggested_rules,      \* local suggested_rules: sequence of <<description, path>>
    processed_rule_files, \* local processed_rule_files: set of paths
    pc,                   \* position: "loop", "ascend", "returned", "raised", "done", "glob"
    outcome,              \* how find_applicable_rules ended: "pending", "returned", "raised"
    content,              \* what get_applicable_rules_content gave back
    visited,              \* history: directories whose rules folder was looked for
    loads,                \* history: paths handed to load_rule_from_file, in order
    encounters,           \* history: .mdc paths enumerated by os.walk, in order
    mFile, mPattern,      \* arguments of a direct match_file_with_glob call
    mResult               \* its outcome: "pending", "True", "False" or "ValueError"

vars == <<fs, repo_root, file_path, current_dir, applicable_rules, suggested_rules,
          processed_rule_files, pc, outcome, content, visited, loads, encounters,
          mFile, mPattern, mResult>>

walkVars == <<fs, repo_root, file_path, current_dir, applicable_rules, suggested_rules,
              processed_rule_files, outcome, content, visited, loads, encounters>>

-----------------------------------------------------------------------------
(* Python str primitives *)

StartsWith(s, p) == Len(p) <= Len(s) /\ SubSeq(s, 1, Len(p)) = p

EndsWith(s, p) == Len(p) <= Len(s) /\ SubSeq(s, Len(s) - Len(p) + 1, Len(s)) = p

\* `p in s`
Contains(s, p) ==
    \E i \in 1..(Len(s) - Len(p) + 1) : SubSeq(s, i, i + Len(p) - 1) = p

\* s.find(p) + 1: the first position of p in s, 0 when absent
Find(s, p) ==
    LET hits == {i \in 1..(Len(s) - Len(p) + 1) : SubSeq(s, i, i + Len(p) - 1) = p}
    IN  IF hits = {} THEN 0 ELSE CHOOSE i \in hits : \A j \in hits : i <= j

\* s.rfind(p) + 1
RFind(s, p) ==
    LET hits == {i \in 1..(Len(s) - Len(p) + 1) : SubSeq(s, i, i + Len(p) - 1) = p}
    IN  IF hits = {} THEN 0 ELSE CHOOSE i \in hits : \A j \in hits : i >= j

\* s[k:] for a 0-based k
From(s, k) == SubSeq(s, k + 1, Len(s))

\* s.split(sep)
RECURSIVE Split(_, _)
Split(s, sep) ==
    LET i == Find(s, sep)
    IN  IF i = 0 THEN <<s>>
        ELSE <<SubSeq(s, 1, i - 1)>> \o Split(SubSeq(s, i + Len(sep), Len(s)), sep)

\* sep.join(parts)
RECURSIVE Join(_, _)
Join(parts, sep) ==
    IF parts = <<>> THEN ""
    ELSE IF Len(parts) = 1 THEN parts[1]
    ELSE parts[1] \o sep \o Join(Tail(parts), sep)

\* s.rstrip("/")
RECURSIVE RStripSlash(_)
RStripSlash(s) ==
    IF s # "" /\ EndsWith(s, "/") THEN RStripSlash(SubSeq(s, 1, Len(s) - 1)) ELSE s

AllSlashes(s) == \A i \in 1..Len(s) : SubSeq(s, i, i) = "/"

-----------------------------------------------------------------------------
(* os.path (posixpath) and pathlib *)

\* The process's working directory, which os.path.abspath prepends to a relative path.
Cwd == "/r"

\* os.path.dirname
dirname(p) ==
    LET i    == RFind(p, "/")
        head == SubSeq(p, 1, i)
    IN  IF head # "" /\ ~AllSlashes(head) THEN RStripSlash(head) ELSE head

\* os.path.join(a, b) for a relative b
join(a, b) == IF a = "" \/ EndsWith(a, "/") THEN a \o b ELSE a \o "/" \o b

\* posixpath.normpath's loop over the components
RECURSIVE NormComps(_, _, _)
NormComps(comps, acc, absolute) ==
    IF comps = <<>> THEN acc
    ELSE LET c == Head(comps)
         IN  IF c = "" \/ c = "." THEN NormComps(Tail(comps), acc, absolute)
             ELSE IF c # ".." \/ (~absolute /\ acc = <<>>)
                              \/ (acc # <<>> /\ acc[Len(acc)] = "..")
                  THEN NormComps(Tail(comps), Append(acc, c), absolute)
             ELSE IF acc # <<>>
                  THEN NormComps(Tail(comps), SubSeq(acc, 1, Len(acc) - 1), absolute)
             ELSE NormComps(Tail(comps), acc, absolute)

\* os.path.normpath
normpath(p) ==
    IF p = "" THEN "."
    ELSE LET absolute == StartsWith(p, "/")
             joined   == Join(NormComps(Split(p, "/"), <<>>, absolute), "/")
             out      == IF absolute THEN "/" \o joined ELSE joined
         IN  IF out = "" THEN "." ELSE out

\* os.path.abspath
abspath(p) == IF StartsWith(p, "/") THEN normpath(p) ELSE normpath(join(Cwd, p))

\* the parts of pathlib.PurePosixPath(p), the root aside
PathParts(p) == SelectSeq(Split(p, "/"), LAMBDA c : c # "" /\ c # ".")

\* Path(p).name
PathName(p) == LET parts == PathParts(p) IN IF parts = <<>> THEN "" ELSE parts[Len(parts)]

\* str(Path(p))
PathStr(p) ==
    LET joined == Join(PathParts(p), "/")
    IN  IF StartsWith(p, "/") THEN "/" \o joined
        ELSE IF joined = "" THEN "." ELSE joined

-----------------------------------------------------------------------------
(* fnmatch.fnmatch on a POSIX system: `*`, `?`, `[seq]`, `[!seq]` and       *)
(* literals; character ranges (`a-z`) are not in the patterns drawn here.  *)

\* position of the `]` closing the class opened at i, or 0 when there is none
ClassEnd(pat, i) ==
    LET j0 == IF i + 1 <= Len(pat) /\ SubSeq(pat, i + 1, i + 1) = "!" THEN i + 2 ELSE i + 1
        j1 == IF j0 <= Len(pat) /\ SubSeq(pat, j0, j0) = "]" THEN j0 + 1 ELSE j0
        ends == {j \in j1..Len(pat) : SubSeq(pat, j, j) = "]"}
    IN  IF ends = {} THEN 0 ELSE CHOOSE j \in ends : \A k \in ends : j <= k

RECURSIVE FnMatchAt(_, _, _, _)
FnMatchAt(name, i, pat, j) ==
    IF j > Len(pat) THEN i > Len(name)
    ELSE LET c == SubSeq(pat, j, j)
         IN  IF c = "*"
             THEN \E k \in i..(Len(name) + 1) : FnMatchAt(name, k, pat, j + 1)
             ELSE IF c = "?"
             THEN i <= Len(name) /\ FnMatchAt(name, i + 1, pat, j + 1)
             ELSE IF c = "[" /\ ClassEnd(pat, j) # 0
             THEN LET e       == ClassEnd(pat, j)
                      negate  == SubSeq(pat, j + 1, j + 1) = "!"
                      members == IF negate THEN SubSeq(pat, j + 2, e - 1)
                                 ELSE SubSeq(pat, j + 1, e - 1)
                  IN  /\ i <= Len(name)
                      /\ (Contains(members, SubSeq(name, i, i)) # negate)
                      /\ FnMatchAt(name, i + 1, pat, e + 1)
             ELSE /\ i <= Len(name)
                  /\ SubSeq(name, i, i) = c
                  /\ FnMatchAt(name, i + 1, pat, j + 1)

fnmatch(name, pat) == FnMatchAt(name, 1, pat, 1)

-----------------------------------------------------------------------------
(* match_file_with_glob: "True", "False", or "ValueError" when the tuple   *)
(* assignment of line 111 does not get exactly two parts.                  *)

Bool(b) == IF b THEN "True" ELSE "False"

\* line 105: the patterns the double-star extension case recognises
IsDoubleStarExt(glob_pattern) == glob_pattern = "**/*.js" \/ glob_pattern = "**/*.jsx"

match_file_with_glob(fp, glob_pattern) ==
    LET file_name == PathName(fp)
    IN  IF StartsWith(glob_pattern, "*.")
        THEN Bool(EndsWith(file_name, From(glob_pattern, 1)))
        ELSE IF IsDoubleStarExt(glob_pattern)
        THEN LET dots == Split(glob_pattern, ".")
                 ext  == dots[Len(dots)]
             IN  Bool(EndsWith(file_name, "." \o ext))
        ELSE IF Contains(glob_pattern, "/") /\ Contains(glob_pattern, "**")
        THEN LET parts == Split(glob_pattern, "/**/")
             IN  IF Len(parts) # 2 THEN "ValueError"
                 ELSE LET dir_part  == parts[1]
                          file_part == parts[2]
                      IN  IF StartsWith(file_part, "*")
                             /\ ~EndsWith(file_name, From(file_part, 1))
                          THEN "False"
                          ELSE Bool(Contains(PathStr(fp), dir_part))
        ELSE Bool(fnmatch(file_name, glob_pattern))

-----------------------------------------------------------------------------
(* load_rule_from_file.  A file is [path, readable, text]; the result is    *)
(* <<>> for None and <<rule>> for a Rule.  An Optional[str] is <<>> or <<s>>. *)

IsSpace(c) == c = " " \/ c = "\n" \/ c = "\t" \/ c = "\r"

\* str.strip()
RECURSIVE Strip(_)
Strip(s) ==
    IF s = "" THEN s
    ELSE IF IsSpace(SubSeq(s, 1, 1)) THEN Strip(SubSeq(s, 2, Len(s)))
    ELSE IF IsSpace(SubSeq(s, Len(s), Len(s))) THEN Strip(SubSeq(s, 1, Len(s) - 1))
    ELSE s

UpperLetters == "ABCDEFGHIJKLMNOPQRSTUVWXYZ"
LowerLetters == "abcdefghijklmnopqrstuvwxyz"

\* str.lower()
RECURSIVE Lower(_)
Lower(s) ==
    IF s = "" THEN s
    ELSE LET c == SubSeq(s, 1, 1)
             i == Find(UpperLetters, c)
         IN  (IF i = 0 THEN c ELSE SubSeq(LowerLetters, i, i)) \o Lower(SubSeq(s, 2, Len(s)))

\* lines 52-58: the frontmatter dict, as the sequence of <<key, value>> of the lines with a colon
ParseFrontmatter(frontmatter_text) ==
    LET lines  == Split(Strip(frontmatter_text), "\n")
        keyed  == SelectSeq(lines, LAMBDA l : Contains(l, ":"))
    IN  [n \in 1..Len(keyed) |->
            LET c == Find(keyed[n], ":")
            IN  <<Strip(SubSeq(keyed[n], 1, c - 1)), Strip(From(keyed[n], c))>>]

\* frontmatter.get(key): <<>> when absent, else <<value>> of the last line with that key
Get(frontmatter, key) ==
    LET at == {n \in 1..Len(frontmatter) : frontmatter[n][1] = key}
    IN  IF at = {} THEN <<>>
        ELSE <<frontmatter[CHOOSE n \in at : \A m \in at : n >= m][2]>>

load_rule_from_file(rule_file_path, readable, text) ==
    IF ~readable THEN <<>>                       \* open() raised: lines 80-83
    ELSE IF ~StartsWith(text, "---\n") THEN <<>>
    ELSE LET rest == From(text, 4)
             i    == Find(rest, "\n---\n")
         IN  IF i = 0 THEN <<>>
             ELSE LET frontmatter == ParseFrontmatter(SubSeq(rest, 1, i - 1))
                      globs_value == Get(frontmatter, "globs")
                      always      == Get(frontmatter, "alwaysApply")
                      stripped    == IF globs_value = <<>> THEN <<>>
                                     ELSE Split(globs_value[1], ",")
                  IN  <<[description  |-> Get(frontmatter, "description"),
                         globs        |-> IF globs_value = <<>> \/ globs_value[1] = ""
                                          THEN <<>>
                                          ELSE [n \in 1..Len(stripped) |-> Strip(stripped[n])],
                         always_apply |-> Lower(IF always = <<>> THEN "false" ELSE always[1])
                                          = "true",
                         payload      |-> Strip(From(rest, i + 4)),
                         file_path    |-> rule_file_path]>>

-----------------------------------------------------------------------------
(* The file system seen by os.path.isdir and os.walk *)

basename(p) == From(p, RFind(p, "/"))

\* paths of the files below directory d, in scandir order
Below(d) ==
    LET prefix == IF EndsWith(d, "/") THEN d ELSE d \o "/"
    IN  SelectSeq(fs, LAMBDA f : StartsWith(f.path, prefix))

\* os.path.isdir: a directory exists when something lies below it
isdir(d) == Below(d) # <<>>

\* the distinct immediate subdirectories of top, in order of first appearance
RECURSIVE SubDirs(_, _, _)
SubDirs(top, files, seen) ==
    IF files = <<>> THEN seen
    ELSE LET rel == From(Head(files).path, Len(top) + 1)
             cut == Find(rel, "/")
             sub == IF cut = 0 THEN "" ELSE top \o "/" \o SubSeq(rel, 1, cut - 1)
         IN  IF cut = 0 \/ \E n \in 1..Len(seen) : seen[n] = sub
             THEN SubDirs(top, Tail(files), seen)
             ELSE SubDirs(top, Tail(files), Append(seen, sub))

\* os.walk(top), flattened to the files it yields: those of top, then each subdirectory's
RECURSIVE WalkFiles(_)
RECURSIVE WalkEach(_)
WalkFiles(top) ==
    SelectSeq(Below(top), LAMBDA f : dirname(f.path) = top)
        \o WalkEach(SubDirs(top, Below(top), <<>>))
WalkEach(dirs) ==
    IF dirs = <<>> THEN <<>> ELSE WalkFiles(Head(dirs)) \o WalkEach(Tail(dirs))

-----------------------------------------------------------------------------
(* find_applicable_rules: the body of the while loop, lines 157-187.  The   *)
(* locals travel in a record; raised is set when match_file_with_glob's    *)
(* ValueError leaves the function.                                         *)

\* the guard dropped: the walk goes on to the file system's root
NoGuard(dir, root) == TRUE

\* line 156: the loop's guard
InRepo(dir, root) == StartsWith(dir, root)

\* the check of line 167 dropped
NeverProcessed(rule_file_path, processed) == FALSE

\* line 167
AlreadyProcessed(rule_file_path, processed) == rule_file_path \in processed

\* insert at the front instead of append
PrependRule(rules, rule) == <<rule>> \o rules

\* lines 178 and 183
AppendRule(rules, rule) == Append(rules, rule)

\* lines 181-184: the loop over the rule's globs
RECURSIVE GlobLoop(_, _, _)
GlobLoop(acc, rule, n) ==
    IF n > Len(rule.globs) THEN acc
    ELSE LET m == match_file_with_glob(file_path, rule.globs[n])
         IN  IF m = "ValueError" THEN [acc EXCEPT !.raised = TRUE]
             ELSE IF m = "True"
             THEN [acc EXCEPT !.applicable = AppendRule(@, rule)]  \* and break
             ELSE GlobLoop(acc, rule, n + 1)

\* lines 176-187
Classify(acc, rule) ==
    IF rule.always_apply THEN [acc EXCEPT !.applicable = AppendRule(@, rule)]
    ELSE IF file_path # "" /\ rule.globs # <<>> THEN GlobLoop(acc, rule, 1)
    ELSE IF rule.description # <<>> /\ rule.description[1] # ""
    THEN [acc EXCEPT !.suggested = Append(@, <<rule.description[1], rule.file_path>>)]
    ELSE acc

\* lines 162-187 for one file yielded by os.walk
ProcessFile(acc, f) ==
    IF acc.raised \/ ~EndsWith(basename(f.path), ".mdc") THEN acc
    ELSE LET seen == [acc EXCEPT !.encounters = Append(@, f.path)]
         IN  IF AlreadyProcessed(f.path, acc.processed) THEN seen
             ELSE LET marked == [seen EXCEPT !.processed = @ \cup {f.path},
                                             !.loads = Append(@, f.path)]
                      rule   == load_rule_from_file(f.path, f.readable, f.text)
                  IN  IF rule = <<>> THEN marked ELSE Classify(marked, rule[1])

RECURSIVE ProcessFiles(_, _)
ProcessFiles(acc, files) ==
    IF files = <<>> THEN acc ELSE ProcessFiles(ProcessFile(acc, Head(files)), Tail(files))

Locals ==
    [applicable |-> applicable_rules, suggested |-> suggested_rules,
     processed |-> processed_rule_files, loads |-> loads, encounters |-> encounters,
     raised |-> FALSE]

\* lines 158-187 at current_dir
LoopBody ==
    LET rules_dir == join(join(current_dir, ".cursor"), "rules")
    IN  IF isdir(rules_dir) THEN ProcessFiles(Locals, WalkFiles(rules_dir)) ELSE Locals

-----------------------------------------------------------------------------
(* get_applicable_rules_content, lines 213-236 *)

\* os.path.relpath(path, start)
relpath(path, start) ==
    LET start_list == SelectSeq(Split(abspath(start), "/"), LAMBDA c : c # "")
        path_list  == SelectSeq(Split(abspath(path), "/"), LAMBDA c : c # "")
        shorter    == IF Len(start_list) < Len(path_list) THEN Len(start_list)
                      ELSE Len(path_list)
        agree      == {n \in 0..shorter : \A k \in 1..n : start_list[k] = path_list[k]}
        i          == CHOOSE n \in agree : \A m \in agree : n >= m
        rel_list   == [k \in 1..(Len(start_list) - i) |-> ".."]
                          \o SubSeq(path_list, i + 1, Len(path_list))
    IN  IF rel_list = <<>> THEN "." ELSE Join(rel_list, "/")

RulesHeader == "\n\n// .cursor/rules results:"

RECURSIVE RenderRules(_, _)
RenderRules(rules, root) ==
    IF rules = <<>> THEN ""
    ELSE "\n\n// Rule from " \o relpath(Head(rules).file_path, root) \o ":\n"
             \o Head(rules).payload \o RenderRules(Tail(rules), root)

RECURSIVE RenderSuggestions(_, _)
RenderSuggestions(suggested, root) ==
    IF suggested = <<>> THEN ""
    ELSE "\n\n// If " \o Head(suggested)[1] \o " applies, load "
             \o relpath(Head(suggested)[2], root) \o RenderSuggestions(Tail(suggested), root)

\* the function without its try/except
Unguarded(found, applicable, suggested, root) ==
    IF found = "raised" THEN [raised |-> TRUE, value |-> ""]
    ELSE IF applicable # <<>> \/ suggested # <<>>
    THEN [raised |-> FALSE,
          value  |-> RulesHeader \o RenderRules(applicable, root)
                         \o RenderSuggestions(suggested, root)]
    ELSE [raised |-> FALSE, value |-> ""]

\* the whole function, given how find_applicable_rules ended:
\* [raised, value], raised when an exception leaves the function
get_applicable_rules_content(found, applicable, suggested, root) ==
    IF found = "raised"
       \/ (\E n \in 1..Len(applicable) : applicable[n].file_path = "")
       \/ (\E k \in 1..Len(suggested) : suggested[k][2] = "")
    THEN [raised |-> FALSE, value |-> ""]      \* except Exception: return ""
    ELSE IF applicable # <<>> \/ suggested # <<>>
    THEN [raised |-> FALSE,
          value  |-> RulesHeader \o RenderRules(applicable, root)
                         \o RenderSuggestions(suggested, root)]
    ELSE [raised |-> FALSE, value |-> ""]

-----------------------------------------------------------------------------
(* The repositories and calls explored *)

\* at most this many files exist
MaxDocs == 3

AlwaysText == "---\nalwaysApply: True\n---\nA\n"
GlobText   == "---\ndescription: d\nglobs: *.js, **/*.js\nalwaysApply: false\n---\nG"
StarText   == "---\ndescription: e\nglobs: **/*.py\n---\nB"
DescText   == "---\ndescription: f\n---\nD"
PlainText  == "no header"

File(path, text) == [path |-> path, readable |-> TRUE, text |-> text]

\* the files a repository may hold, directory by directory: the rules folder of /r, a
\* rules folder nested inside it, one inside /r/.cursor, that of /r/s, and that of /r2,
\* a sibling of /r
Catalogue ==
    <<File("/r/.cursor/rules/x.mdc", AlwaysText),
      File("/r/.cursor/rules/x.mdc", GlobText),
      File("/r/.cursor/rules/x.mdc", StarText),
      File("/r/.cursor/rules/x.mdc", DescText),
      File("/r/.cursor/rules/x.mdc", PlainText),
      [path |-> "/r/.cursor/rules/x.mdc", readable |-> FALSE, text |-> ""],
      File("/r/.cursor/rules/w.mdc", AlwaysText),
      File("/r/.cursor/rules/w.mdc", DescText),
      File("/r/.cursor/rules/n.txt", AlwaysText),
      File("/r/.cursor/rules/s/.cursor/rules/b.mdc", AlwaysText),
      File("/r/.cursor/rules/s/.cursor/rules/b.mdc", GlobText),
      File("/r/.cursor/rules/s/.cursor/rules/b.mdc", DescText),
      File("/r/.cursor/.cursor/rules/a.mdc", AlwaysText),
      File("/r/.cursor/.cursor/rules/a.mdc", DescText),
      File("/r/s/.cursor/rules/y.mdc", AlwaysText),
      File("/r/s/.cursor/rules/y.mdc", GlobText),
      File("/r/s/.cursor/rules/y.mdc", StarText),
      File("/r2/.cursor/rules/z.mdc", AlwaysText),
      File("/r2/.cursor/rules/z.mdc", DescText)>>

\* file systems of n files: increasing picks from Catalogue, no path twice
FileSystems(n) ==
    {[k \in 1..n |-> Catalogue[ix[k]]] :
        ix \in {c \in [1..n -> 1..Len(Catalogue)] :
                   \A k \in 1..(n - 1) : /\ c[k] < c[k + 1]
                                         /\ Catalogue[c[k]].path # Catalogue[c[k + 1]].path}}

\* scandir may list two files of one directory in either order
Swapped(files) ==
    IF Len(files) >= 2 /\ dirname(files[1].path) = dirname(files[2].path)
    THEN {files, <<files[2], files[1]>> \o SubSeq(files, 3, Len(files))}
    ELSE {files}

\* the calls made: <<repo_root, file_path>>, "" for no file_path
Calls ==
    {<<"/r/", t>> : t \in {"", "/r/s/a.js", "/r/.cursor/rules/s/f.py", "/r2/a.js", "s/a.py"}}
    \cup {<<"/", "/r/s/a.js">>, <<"/", "">>}

Init ==
    /\ \E n \in 0..MaxDocs : \E files \in FileSystems(n) : fs \in Swapped(files)
    /\ \E call \in Calls : repo_root = call[1] /\ file_path = call[2]
    /\ current_dir = ""
    /\ applicable_rules = <<>>
    /\ suggested_rules = <<>>
    /\ processed_rule_files = {}
    /\ pc = "call"
    /\ outcome = "pending"
    /\ content = [raised |-> FALSE, value |-> ""]
    /\ visited = <<>>
    /\ loads = <<>>
    /\ encounters = <<>>
    /\ mFile = "" /\ mPattern = "" /\ mResult = "pending"

\* lines 143-153
Begin ==
    /\ pc = "call"
    /\ repo_root' = abspath(repo_root)
    /\ current_dir' = IF file_path # "" THEN dirname(abspath(file_path))
                      ELSE abspath(repo_root)
    /\ pc' = "loop"
    /\ UNCHANGED <<fs, file_path, applicable_rules, suggested_rules,
                   processed_rule_files, outcome, content, visited, loads, encounters,
                   mFile, mPattern, mResult>>

\* one iteration of the while loop, lines 156-193: the rules folder of current_dir is
\* processed, and then the walk moves up, breaks at the file system's root, or is left
\* by the exception match_file_with_glob raised
Iterate ==
    /\ pc = "loop"
    /\ InRepo(current_dir, repo_root)
    /\ LET acc == LoopBody
       IN  /\ applicable_rules' = acc.applicable
           /\ suggested_rules' = acc.suggested
           /\ processed_rule_files' = acc.processed
           /\ loads' = acc.loads
           /\ encounters' = acc.encounters
           /\ visited' = Append(visited, current_dir)
           /\ \/ /\ acc.raised
                 /\ pc' = "raised"
                 /\ outcome' = "raised"
                 /\ UNCHANGED current_dir
              \/ /\ ~acc.raised
                 /\ dirname(current_dir) = current_dir      \* line 191: break
                 /\ pc' = "returned"
                 /\ outcome' = "returned"
                 /\ UNCHANGED current_dir
              \/ /\ ~acc.raised
                 /\ dirname(current_dir) # current_dir
                 /\ current_dir' = dirname(current_dir)
                 /\ UNCHANGED <<pc, outcome>>
    /\ UNCHANGED <<fs, repo_root, file_path, content, mFile, mPattern, mResult>>

\* the guard of line 156 fails: return, line 195
ExitLoop ==
    /\ pc = "loop"
    /\ ~InRepo(current_dir, repo_root)
    /\ pc' = "returned"
    /\ outcome' = "returned"
    /\ UNCHANGED <<fs, repo_root, file_path, current_dir, applicable_rules,
                   suggested_rules, processed_rule_files, content, visited, loads,
                   encounters, mFile, mPattern, mResult>>

\* get_applicable_rules_content around the call it made.  It hands os.path.relpath the
\* repo_root it was given; relpath takes the abspath of both arguments, so the value
\* normalised at line 148 gives the same paths.
Render ==
    /\ pc \in {"returned", "raised"}
    /\ content' = get_applicable_rules_content(outcome, applicable_rules,
                                               suggested_rules, repo_root)
    /\ pc' = "done"
    /\ UNCHANGED <<fs, repo_root, file_path, current_dir, applicable_rules,
                   suggested_rules, processed_rule_files, outcome, visited, loads,
                   encounters, mFile, mPattern, mResult>>

Next ==
    \/ Begin
    \/ Iterate
    \/ ExitLoop
    \/ Render

Spec == Init /\ [][Next]_vars

-----------------------------------------------------------------------------
(* Properties of find_applicable_rules and get_applicable_rules_content *)

Root == abspath(repo_root)

\* d is root or lies below it, by path segments
Within(d, root) == d = root \/ StartsWith(d, IF EndsWith(root, "/") THEN root ELSE root \o "/")

\* the rules folder of directory d holds the file at path, at any depth
InFolder(path, d) == StartsWith(path, join(join(d, ".cursor"), "rules") \o "/")

Count(seq, x) == Cardinality({n \in 1..Len(seq) : seq[n] = x})

ApplicablePaths == [n \in 1..Len(applicable_rules) |-> applicable_rules[n].file_path]
SuggestedPaths == [n \in 1..Len(suggested_rules) |-> suggested_rules[n][2]]

AllPaths == {Catalogue[n].path : n \in 1..Len(Catalogue)}

\* the Rule a file of the file system parses to, <<>> when it is no rule
RuleOf(f) == load_rule_from_file(f.path, f.readable, f.text)

Files == {fs[n] : n \in 1..Len(fs)}

\* what the caller of find_applicable_rules receives
ReturnedApplicable == IF outcome = "returned" THEN ApplicablePaths ELSE <<>>

\* C1: during one call every document path occurs at most once across applicableRules
\* and suggestedRules together, and is loaded at most once, also when the rules folders
\* of several visited directories hold it.
C1_EachDocumentOnce ==
    \A p \in AllPaths :
        /\ Count(ApplicablePaths \o SuggestedPaths, p) <= 1
        /\ Count(loads, p) <= 1

\* a document was enumerated from two visited directories, loaded once and listed once
C1_Witness ==
    /\ outcome = "returned"
    /\ \E p \in AllPaths :
          /\ Count(encounters, p) >= 2
          /\ Count(loads, p) = 1
          /\ Count(ApplicablePaths \o SuggestedPaths, p) = 1

\* C2: with a target file, a loaded rule that is not always-apply, has globs none of
\* which matches the target, and has a description, is absent from applicableRules and
\* present in suggestedRules as (description, path).
C2_UnmatchedRuleSuggested ==
    outcome = "returned" =>
        \A f \in Files :
            LET r == RuleOf(f)
            IN  (/\ Count(loads, f.path) >= 1
                 /\ r # <<>>
                 /\ file_path # ""
                 /\ ~r[1].always_apply
                 /\ r[1].globs # <<>>
                 /\ r[1].description # <<>>
                 /\ \A n \in 1..Len(r[1].globs) :
                        match_file_with_glob(file_path, r[1].globs[n]) = "False")
                => /\ Count(ApplicablePaths, f.path) = 0
                   /\ Count(suggested_rules, <<r[1].description[1], f.path>>) >= 1

\* C3: once the call has ended, every well-formed always-apply document in the rules
\* folder of a visited directory is in the applicableRules the caller receives.
C3_AlwaysApplyReturned ==
    outcome # "pending" =>
        \A f \in Files :
            (/\ EndsWith(basename(f.path), ".mdc")
             /\ RuleOf(f) # <<>>
             /\ RuleOf(f)[1].always_apply
             /\ \E n \in 1..Len(visited) : InFolder(f.path, visited[n]))
            => Count(ReturnedApplicable, f.path) >= 1

\* the target file lies strictly inside repoRoot
TargetInside == file_path # "" /\ abspath(file_path) # Root /\ Within(abspath(file_path), Root)

\* C4: when the target lies strictly inside repoRoot, every directory the walk inspects
\* is repoRoot or a descendant of it.
C4_WalkStaysInside ==
    TargetInside => \A n \in 1..Len(visited) : Within(visited[n], Root)

\* the walk from a file two levels down ended at repoRoot, below the file system's root
C4_Witness ==
    /\ pc = "done"
    /\ TargetInside
    /\ Root # "/"
    /\ Len(visited) >= 2
    /\ visited[Len(visited)] = Root

\* C6: find_applicable_rules does not raise, whatever the documents hold.
C6_DiscoverNeverRaises == outcome # "raised"

\* C7: get_applicable_rules_content never raises; it returns "" when both lists are
\* empty and when discovery failed, otherwise a string that opens with the header.
C7_ContentNeverRaises ==
    pc = "done" =>
        /\ ~content.raised
        /\ outcome = "raised" => content.value = ""
        /\ (outcome = "returned" /\ applicable_rules = <<>> /\ suggested_rules = <<>>)
               => content.value = ""
        /\ (outcome = "returned" /\ (applicable_rules # <<>> \/ suggested_rules # <<>>))
               => /\ content.value # ""
                  /\ StartsWith(content.value, RulesHeader)

\* discovery raised after a rule had been collected, and the caller got ""
C7_Witness ==
    /\ pc = "done"
    /\ outcome = "raised"
    /\ applicable_rules # <<>>
    /\ content = [raised |-> FALSE, value |-> ""]

\* position of the first visited directory whose rules folder holds path, 0 if none
FirstVisit(path) ==
    LET at == {n \in 1..Len(visited) : InFolder(path, visited[n])}
    IN  IF at = {} THEN 0 ELSE CHOOSE n \in at : \A m \in at : n <= m

\* position of path in the enumeration of the rules folder of directory d, 0 if absent
EnumPos(path, d) ==
    LET files == WalkFiles(join(join(d, ".cursor"), "rules"))
        at    == {n \in 1..Len(files) : files[n].path = path}
    IN  IF at = {} THEN 0 ELSE CHOOSE n \in at : TRUE

\* paths is ordered deepest holding directory first, for every pair of visited
\* directories that hold the two documents
DeepestFirst(paths) ==
    \A i, j \in 1..Len(paths) :
        (/\ i # j
         /\ \E a, b \in 1..Len(visited) :
               /\ visited[a] # visited[b]
               /\ Within(visited[a], visited[b])
               /\ InFolder(paths[i], visited[a])
               /\ InFolder(paths[j], visited[b]))
        => i < j

\* documents of one directory of the file system keep the order os.walk lists them in
SameDirectoryOrder(paths) ==
    \A i, j \in 1..Len(paths) :
        (/\ dirname(paths[i]) = dirname(paths[j])
         /\ FirstVisit(paths[i]) # 0
         /\ EnumPos(paths[i], visited[FirstVisit(paths[i])])
                < EnumPos(paths[j], visited[FirstVisit(paths[i])]))
        => i < j

\* C9, as stated: in each returned list a document held by the rules folder of a visited
\* directory precedes every document held by the rules folder of a visited ancestor of
\* that directory, and documents of one directory keep their enumeration order.
C9_DeepestHolderFirst ==
    outcome = "returned" =>
        /\ DeepestFirst(ApplicablePaths) /\ SameDirectoryOrder(ApplicablePaths)
        /\ DeepestFirst(SuggestedPaths) /\ SameDirectoryOrder(SuggestedPaths)

\* paths is ordered by first encounter: by the first visited directory whose rules
\* folder holds the document, then by that folder's enumeration
EncounterOrder(paths) ==
    \A i, j \in 1..Len(paths) :
        LET a == FirstVisit(paths[i])
            b == FirstVisit(paths[j])
        IN  /\ a # 0 /\ b # 0
            /\ (a < b \/ (a = b /\ EnumPos(paths[i], visited[a]) < EnumPos(paths[j], visited[a])))
                   => i < j

\* C9, amended: each returned list is in order of first encounter on the upward walk.
C9_FirstEncounterOrder ==
    outcome = "returned" =>
        EncounterOrder(ApplicablePaths) /\ EncounterOrder(SuggestedPaths)

\* two rules in one list, the first from a rules folder nested in the rules folder of
\* repoRoot, the second from the rules folder of a directory between the two
C9_Witness ==
    /\ outcome = "returned"
    /\ \E paths \in {ApplicablePaths, SuggestedPaths} :
          /\ Len(paths) = 2
          /\ FirstVisit(paths[1]) < FirstVisit(paths[2])
          /\ InFolder(paths[1], visited[Len(visited)])
          /\ ~InFolder(paths[2], visited[Len(visited)])

\* C10: for any target, every directory the walk inspects is repoRoot or a descendant of
\* it by path segments, and no listed rule comes from outside repoRoot.
C10_NeverOutside ==
    /\ \A n \in 1..Len(visited) : Within(visited[n], Root)
    /\ \A n \in 1..Len(ApplicablePaths) : Within(ApplicablePaths[n], Root)
    /\ \A n \in 1..Len(SuggestedPaths) : Within(SuggestedPaths[n], Root)

-----------------------------------------------------------------------------
(* Direct calls of match_file_with_glob *)

GlobFiles ==
    {"/r/src/app.js", "/r/src/app.jsx", "/r/mysrc/app.js", "/r/src/app.py",
     "app.md", "/r/lib/a.test.js", "/r/src/Makefile", "/r/b.go"}

GlobPatterns ==
    {"*.js", "*.py", "*.test.js", "**/*.js", "**/*.jsx", "**/*.py", "**/*.md",
     "**/*.go", "src/**/*.js", "src/**/*.jsx", "lib/**/a.test.js", "src/**",
     "a/**/b/**/*.js", "src/*.js", "Makefile", "app.*", "?.go", "[ab].go", "[!ab].go"}

InitGlob ==
    /\ mFile \in GlobFiles
    /\ mPattern \in GlobPatterns
    /\ mResult = "pending"
    /\ pc = "glob"
    /\ fs = <<>> /\ repo_root = "" /\ file_path = "" /\ current_dir = ""
    /\ applicable_rules = <<>> /\ suggested_rules = <<>> /\ processed_rule_files = {}
    /\ outcome = "pending" /\ content = [raised |-> FALSE, value |-> ""] /\ visited = <<>> /\ loads = <<>>
    /\ encounters = <<>>

CallMatch ==
    /\ pc = "glob"
    /\ mResult = "pending"
    /\ mResult' = match_file_with_glob(mFile, mPattern)
    /\ pc' = "done"
    /\ UNCHANGED <<walkVars, mFile, mPattern>>

NextGlob == CallMatch

SpecGlob == InitGlob /\ [][NextGlob]_vars
\* C5: match_file_with_glob returns a boolean for every file path and pattern.
C5_MatchReturnsBoolean == mResult \in {"pending", "True", "False"}

\* C8: for a pattern **/*.ext the result is true exactly when the base name ends in .ext.
C8_DoubleStarExtension ==
    (mResult # "pending" /\ StartsWith(mPattern, "**/*.") /\ ~Contains(From(mPattern, 5), "/"))
        => mResult = Bool(EndsWith(PathName(mFile), From(mPattern, 4)))
====
